---- MODULE Spec2Model ----
(***************************************************************************)
(* Model of httpproxy/filters/direct/direct.go: the "direct" round-trip    *)
(* filter.  NewFilter builds one http.Transport from the configuration;    *)
(* Filter.RoundTrip dispatches each request on its method: CONNECT opens a *)
(* raw outbound connection and relays bytes both ways, every other method  *)
(* is forwarded through the transport.                                     *)
(***************************************************************************)
EXTENDS Integers, Sequences, FiniteSets, TLC

\* ------------------------------------------------------------------ bounds
\* Number of requests handled by the one Filter (each may run concurrently).
NumReqs == 2
\* Numeric configuration values range over -1 .. MaxNum.
MaxNum == 1
\* Largest retry count the dialer is followed under.
MaxRetries == 2

Reqs == 1 .. NumReqs

\* ------------------------------------------------------- configuration
\* type Config struct (the Transport part).  Durations of the model are in
\* milliseconds; RetryDelay is the configured float32 given in thousandths.
NumRange == -1 .. MaxNum

\* Texts a proxy URL can start with, up to the colon that ends the scheme.
SchemeTexts == {"http", "HTTP", "https", "socks5", "ftp", "1http"}
\* Texts that can follow the scheme.
RestTexts == {"//proxy:8080", "//[::1"}

ProxyURLs == [schemeText : SchemeTexts, rest : RestTexts]

DefaultURL == [schemeText |-> "http", rest |-> "//proxy:8080"]

\* strings.ToLower on the scheme texts of the model.
ToLower(s) ==
    CASE s = "HTTP" -> "http"
      [] OTHER -> s

\* url.getScheme: a scheme starts with a letter; otherwise a colon in the
\* first path segment is an error.
ValidSchemeText(s) == s \in {"http", "HTTP", "https", "socks5", "ftp"}

\* url.parseAuthority/parseHost: a host opening with '[' needs its ']'.
ValidRest(t) == t = "//proxy:8080"

HostOf(t) == IF t = "//proxy:8080" THEN "proxy:8080" ELSE ""

NilURL == [Scheme |-> "", Host |-> ""]

\* url.Parse(config.Transport.Proxy.URL): (URL, error).  The scheme is
\* lower-cased by the parser.
ParseURL(u) ==
    IF ValidSchemeText(u.schemeText) /\ ValidRest(u.rest)
    THEN [err |-> FALSE,
          url |-> [Scheme |-> ToLower(u.schemeText), Host |-> HostOf(u.rest)]]
    ELSE [err |-> TRUE, url |-> NilURL]

\* proxy.FromURL(fixedURL, d, nil): the schemes a proxy-protocol connector
\* exists for; any other scheme is an error.
ProxyDialSchemes == {"socks5"}

FromURLFails(url) == url.Scheme \notin ProxyDialSchemes

\* The dialer part of the configuration.
DialerConfigs ==
    [Timeout : NumRange, KeepAlive : {0, 1}, DualStack : {FALSE},
     RetryTimes : NumRange, RetryDelay : {-500, 0, 500},
     DNSCacheExpiry : {0, 1}, DNSCacheSize : {1}]

DefaultDialerConfig ==
    [Timeout |-> 1, KeepAlive |-> 1, DualStack |-> FALSE, RetryTimes |-> 1,
     RetryDelay |-> 500, DNSCacheExpiry |-> 1, DNSCacheSize |-> 1]

TransportOptions ==
    [InsecureSkipVerify : {FALSE}, ClientSessionCacheSize : {1},
     DisableKeepAlives : BOOLEAN, DisableCompression : BOOLEAN,
     TLSHandshakeTimeout : {0, 1}, MaxIdleConnsPerHost : {0, 1}]

DefaultTransportOptions ==
    [InsecureSkipVerify |-> FALSE, ClientSessionCacheSize |-> 1,
     DisableKeepAlives |-> FALSE, DisableCompression |-> FALSE,
     TLSHandshakeTimeout |-> 1, MaxIdleConnsPerHost |-> 1]

\* Every configuration NewFilter is checked on.
AllConfigs ==
    [Dialer : DialerConfigs, ProxyEnabled : BOOLEAN, ProxyURL : ProxyURLs,
     Options : TransportOptions]

\* The configurations the request handling is checked under: every proxy
\* setting, the other options at one value.
BrokenURL == [schemeText |-> "http", rest |-> "//[::1"]

ServingConfigs ==
    [Dialer : {DefaultDialerConfig}, ProxyEnabled : {TRUE},
     ProxyURL : ProxyURLs, Options : {DefaultTransportOptions}]
    \cup
    [Dialer : {DefaultDialerConfig}, ProxyEnabled : {FALSE},
     ProxyURL : {DefaultURL, BrokenURL}, Options : {DefaultTransportOptions}]

\* ------------------------------------------------------------ NewFilter
Second == 1000

\* float32 product RetryDelay*1000 truncated by the time.Duration conversion;
\* the model holds RetryDelay in thousandths, so the product is the number.
RetryDelayOf(dc) == dc.RetryDelay * Second

\* Addresses a host name can resolve to, and a host can own.
Addrs == {"127.0.0.1", "10.0.0.5", "93.184.216.34"}

\* helpers.LocalInterfaceIPs(): (ips, err).
IfaceResults ==
    {[err |-> TRUE, ips |-> {}]}
    \cup [err : {FALSE}, ips : {{"127.0.0.1"}, {"127.0.0.1", "10.0.0.5"}}]

DefaultIfaces == [err |-> FALSE, ips |-> {"127.0.0.1", "10.0.0.5"}]

\* RetryTimes: config.Transport.Dialer.RetryTimes
DialerRetryTimes(cfg) == cfg.Dialer.RetryTimes

\* LoopbackAddrs: make(map[string]struct{}), then
\* if ips, err := helpers.LocalInterfaceIPs(); err == nil { every ip is added }
LoopbackAddrsOf(ifc) == IF ifc.err THEN {} ELSE ifc.ips

\* d := &dialer.Dialer{...}
NewDialer(cfg, ifc) ==
    [KeepAlive |-> cfg.Dialer.KeepAlive * Second,
     Timeout |-> cfg.Dialer.Timeout * Second,
     DualStack |-> cfg.Dialer.DualStack,
     RetryTimes |-> DialerRetryTimes(cfg),
     RetryDelay |-> RetryDelayOf(cfg.Dialer),
     DNSCacheSize |-> cfg.Dialer.DNSCacheSize,
     DNSCacheExpiry |-> cfg.Dialer.DNSCacheExpiry * Second,
     LoopbackAddrs |-> LoopbackAddrsOf(ifc)]

NilProxy == [set |-> FALSE, url |-> NilURL]

\* The zero http.Transport, before construction.
ZeroTransport ==
    [Dial |-> "nil", DialTLS |-> "nil", Proxy |-> NilProxy,
     InsecureSkipVerify |-> FALSE, ClientSessionCacheSize |-> 0,
     TLSHandshakeTimeout |-> 0, MaxIdleConnsPerHost |-> 0,
     DisableCompression |-> FALSE, DisableKeepAlives |-> FALSE]

ZeroDialer ==
    [KeepAlive |-> 0, Timeout |-> 0, DualStack |-> FALSE, RetryTimes |-> 0,
     RetryDelay |-> 0, DNSCacheSize |-> 0, DNSCacheExpiry |-> 0,
     LoopbackAddrs |-> {}]

\* tr := &http.Transport{Dial: d.Dial, ...}: the fields the literal sets.
BaseTransport(cfg) ==
    [Dial |-> "d.Dial", DialTLS |-> "nil", Proxy |-> NilProxy,
     InsecureSkipVerify |-> cfg.Options.InsecureSkipVerify,
     ClientSessionCacheSize |-> cfg.Options.ClientSessionCacheSize,
     TLSHandshakeTimeout |-> cfg.Options.TLSHandshakeTimeout * Second,
     MaxIdleConnsPerHost |-> cfg.Options.MaxIdleConnsPerHost,
     DisableCompression |-> cfg.Options.DisableCompression,
     DisableKeepAlives |-> FALSE]

\* case "http", "https": of the scheme switch.
NativeSchemes == {"http", "https"}

NativeTransport_DialKept(t, url) ==
    [t EXCEPT !.Proxy = [set |-> TRUE, url |-> url]]

\* tr.Proxy = http.ProxyURL(fixedURL); tr.Dial = nil; tr.DialTLS = nil
NativeTransport(t, url) ==
    [t EXCEPT !.Proxy = [set |-> TRUE, url |-> url],
              !.Dial = "nil", !.DialTLS = "nil"]

\* tr.Dial = dialer.Dial; tr.DialTLS = nil; tr.Proxy = nil
ProxyDialTransport(t) ==
    [t EXCEPT !.Dial = "proxy.Dial", !.DialTLS = "nil", !.Proxy = NilProxy]

Halted == [fatal |-> TRUE, tr |-> ZeroTransport]

OnParseError_Warn(base) == [fatal |-> FALSE, tr |-> base]

\* if err != nil { glog.Fatalf("url.Parse(%#v) error: %s", ...) }: glog.Fatalf
\* logs and exits the process.
OnParseError(base) == Halted

\* if err != nil { glog.Fatalf("proxy.FromURL(%#v) error: %s", ...) }
OnFromURLError(base) == Halted

\* The outcome of NewFilter(config): the Filter's transport, or the process
\* halted by glog.Fatalf.
NewFilterResult(cfg) ==
    LET base == BaseTransport(cfg)
        parsed == ParseURL(cfg.ProxyURL)
    IN  IF ~cfg.ProxyEnabled THEN [fatal |-> FALSE, tr |-> base]
        ELSE IF parsed.err THEN OnParseError(base)
        ELSE IF parsed.url.Scheme \in NativeSchemes
             THEN [fatal |-> FALSE, tr |-> NativeTransport(base, parsed.url)]
        ELSE IF FromURLFails(parsed.url) THEN OnFromURLError(base)
        ELSE [fatal |-> FALSE, tr |-> ProxyDialTransport(base)]

\* ---------------------------------------------------------------- state
VARIABLES
    config,     \* the configuration handed to NewFilter
    filter,     \* "unbuilt", "ready" (NewFilter returned) or "fatal" (exited)
    dialer,     \* the dialer.Dialer d built by NewFilter
    tr,         \* f.transport
    pc,         \* pc[r]: where request r's RoundTrip call stands
    method,     \* method[r]: req.Method
    urlform,    \* urlform[r]: form of req.URL ("relative" or "absolute")
    rw,         \* rw[r]: the capabilities of the request's ResponseWriter
    ack,        \* ack[r]: "none", "written" (WriteHeader(200)), "flushed"
    rconn,      \* rconn[r]: the outbound handle: "none", "open", "closed"
    lconn,      \* lconn[r]: the hijacked inbound handle
    rpeer,      \* rpeer[r]: the destination's end: "open" or "closed"
    lpeer,      \* lpeer[r]: the client's end
    bg,         \* bg[r]: go IoCopy(rconn, lconn): "none", "running", "done"
    main,       \* main[r]: IoCopy(lconn, rconn) of the calling goroutine
    moved,      \* moved[r]: whether the tunnel has relayed any byte
    trace,      \* trace[r]: the calls RoundTrip made, in order
    result,     \* result[r]: the (response, error) RoundTrip returned
    dialCalls,  \* dialCalls[r]: invocations of the transport's dial function
    fwdCalls,   \* fwdCalls[r]: invocations of f.transport.RoundTrip
    trErr,      \* trErr[r]: the error f.transport.RoundTrip returned
    via,        \* via[r]: how the outbound path was obtained
    ifaces,     \* what helpers.LocalInterfaceIPs() returns on this host
    dl          \* the call of d.Dial that is followed attempt by attempt

vars == <<config, filter, dialer, tr, pc, method, urlform, rw, ack, rconn,
          lconn, rpeer, lpeer, bg, main, moved, trace, result, dialCalls,
          fwdCalls, trErr, via, ifaces, dl>>

buildVars == <<config, filter, dialer, tr>>
reqInputs == <<method, urlform, rw>>
connVars == <<rconn, lconn, rpeer, lpeer>>
copyVars == <<bg, main, moved>>
callVars == <<dialCalls, fwdCalls, trErr, via>>
dialVars == <<ifaces, dl>>

NoResult == [resp |-> "none", err |-> "none"]

InitRequests ==
    /\ pc = [r \in Reqs |-> "idle"]
    /\ method = [r \in Reqs |-> "none"]
    /\ urlform = [r \in Reqs |-> "none"]
    /\ rw = [r \in Reqs |-> [hijacker |-> FALSE, flusher |-> FALSE]]
    /\ ack = [r \in Reqs |-> "none"]
    /\ rconn = [r \in Reqs |-> "none"]
    /\ lconn = [r \in Reqs |-> "none"]
    /\ rpeer = [r \in Reqs |-> "open"]
    /\ lpeer = [r \in Reqs |-> "open"]
    /\ bg = [r \in Reqs |-> "none"]
    /\ main = [r \in Reqs |-> "none"]
    /\ moved = [r \in Reqs |-> FALSE]
    /\ trace = [r \in Reqs |-> << >>]
    /\ result = [r \in Reqs |-> NoResult]
    /\ dialCalls = [r \in Reqs |-> 0]
    /\ fwdCalls = [r \in Reqs |-> 0]
    /\ trErr = [r \in Reqs |-> "none"]
    /\ via = [r \in Reqs |-> "none"]

InitBuild(cfgs) ==
    /\ config \in cfgs
    /\ filter = "unbuilt"
    /\ dialer = ZeroDialer
    /\ tr = ZeroTransport

\* No call of d.Dial has begun.
IdleDial ==
    [state |-> "idle", alwaysFails |-> FALSE, resolved |-> {}, cands |-> {},
     attempts |-> 0, sleeps |-> 0, errs |-> << >>, err |-> "nil"]

InitDialer(ifcs) ==
    /\ ifaces \in ifcs
    /\ dl = IdleDial

\* The process before it registers the filter, under a serving configuration.
Init == InitBuild(ServingConfigs) /\ InitDialer({DefaultIfaces}) /\ InitRequests

\* The same, under every configuration of the model.
InitAll == InitBuild(AllConfigs) /\ InitDialer({DefaultIfaces}) /\ InitRequests

\* func NewFilter(config *Config) (filters.Filter, error)
NewFilter ==
    /\ filter = "unbuilt"
    /\ LET res == NewFilterResult(config)
       IN  /\ filter' = IF res.fatal THEN "fatal" ELSE "ready"
           /\ tr' = res.tr
           /\ dialer' = IF res.fatal THEN ZeroDialer
                        ELSE NewDialer(config, ifaces)
    /\ UNCHANGED <<config, ifaces, dl, pc, reqInputs, ack, connVars, copyVars, trace,
                   result, callVars>>

\* ------------------------------------------------------------ RoundTrip
Methods == {"CONNECT", "GET"}

DialErrs == {"dial: i/o timeout", "dial: connection refused"}

TransportErrs == {"tls: handshake failure", "read: connection reset"}

RWs == [hijacker : BOOLEAN, flusher : BOOLEAN]

FullRW == [hijacker |-> TRUE, flusher |-> TRUE]

\* filters.DummyResponse, the "already handled" sentinel.
DummyResponse == "DummyResponse"

Returned(r, resp, err) ==
    /\ result' = [result EXCEPT ![r] = [resp |-> resp, err |-> err]]
    /\ pc' = [pc EXCEPT ![r] = "returned"]

Logged(r, ev) == trace' = [trace EXCEPT ![r] = Append(@, ev)]

\* The pipeline calls f.RoundTrip(ctx, req); switch req.Method.
Start(r) ==
    /\ filter = "ready"
    /\ pc[r] = "idle"
    /\ \E m \in Methods :
          /\ method' = [method EXCEPT ![r] = m]
          /\ IF m = "CONNECT"
             THEN /\ \E w \in RWs : rw' = [rw EXCEPT ![r] = w]
                  /\ urlform' = [urlform EXCEPT ![r] = "authority"]
                  /\ pc' = [pc EXCEPT ![r] = "dial"]
             ELSE /\ rw' = [rw EXCEPT ![r] = FullRW]
                  /\ \E u \in {"relative", "absolute"} :
                        urlform' = [urlform EXCEPT ![r] = u]
                  /\ pc' = [pc EXCEPT ![r] = "fixurl"]
    /\ UNCHANGED <<buildVars, dialVars, ack, connVars, copyVars, trace, result,
                   callVars>>

\* Which connector a call of tr.Dial goes through.
DialRoute(t) == IF t.Dial = "proxy.Dial" THEN "proxy_dial" ELSE "direct"

DialFailed_Ignored(out) == FALSE

\* if err != nil (after the dial)
DialFailed(out) == out # "ok"

\* rconn, err := f.transport.Dial("tcp", req.Host)
\* if err != nil { return ctx, nil, err }
\* A nil Dial field makes the call a nil function call: a run-time panic.
ConnectDial(r) ==
    /\ pc[r] = "dial"
    /\ IF tr.Dial = "nil"
       THEN /\ pc' = [pc EXCEPT ![r] = "panicked"]
            /\ UNCHANGED <<rconn, trace, result, callVars>>
       ELSE \E out \in {"ok"} \cup DialErrs :
              /\ dialCalls' = [dialCalls EXCEPT ![r] = @ + 1]
              /\ via' = [via EXCEPT ![r] = DialRoute(tr)]
              /\ Logged(r, IF out = "ok" THEN "dial_ok" ELSE "dial_fail")
              /\ rconn' = [rconn EXCEPT ![r] =
                              IF out = "ok" THEN "open" ELSE "none"]
              /\ IF DialFailed(out)
                 THEN Returned(r, "nil", out)
                 ELSE /\ pc' = [pc EXCEPT ![r] = "hijacker"]
                      /\ UNCHANGED result
              /\ UNCHANGED <<fwdCalls, trErr>>
    /\ UNCHANGED <<buildVars, dialVars, reqInputs, ack, lconn, rpeer, lpeer, copyVars>>

Hijackable_Unchecked(w) == TRUE

\* hijacker, ok := rw.(http.Hijacker)
Hijackable(w) == w.hijacker

\* rw := filters.GetResponseWriter(ctx); hijacker, ok := rw.(http.Hijacker)
\* if !ok { return ctx, nil, fmt.Errorf("... does not implments http.Hijacker") }
CheckHijacker(r) ==
    /\ pc[r] = "hijacker"
    /\ IF Hijackable(rw[r])
       THEN /\ pc' = [pc EXCEPT ![r] = "flusher"]
            /\ UNCHANGED result
       ELSE Returned(r, "nil", "not a Hijacker")
    /\ UNCHANGED <<buildVars, dialVars, reqInputs, ack, connVars, copyVars, trace,
                   callVars>>

\* flusher, ok := rw.(http.Flusher)
\* if !ok { return ctx, nil, fmt.Errorf("... does not implments http.Flusher") }
CheckFlusher(r) ==
    /\ pc[r] = "flusher"
    /\ IF rw[r].flusher
       THEN /\ pc' = [pc EXCEPT ![r] = "writeheader"]
            /\ UNCHANGED result
       ELSE Returned(r, "nil", "not a Flusher")
    /\ UNCHANGED <<buildVars, dialVars, reqInputs, ack, connVars, copyVars, trace,
                   callVars>>

WriteHeader_TouchesTransport(r) ==
    /\ pc[r] = "writeheader"
    /\ ack' = [ack EXCEPT ![r] = "written"]
    /\ Logged(r, "write200")
    /\ pc' = [pc EXCEPT ![r] = "flush"]
    /\ tr' = [tr EXCEPT !.DisableCompression = TRUE]
    /\ UNCHANGED <<config, filter, dialer, dialVars, reqInputs, connVars, copyVars,
                   result, callVars>>

\* rw.WriteHeader(http.StatusOK)
WriteHeader(r) ==
    /\ pc[r] = "writeheader"
    /\ ack' = [ack EXCEPT ![r] = "written"]
    /\ Logged(r, "write200")
    /\ pc' = [pc EXCEPT ![r] = "flush"]
    /\ UNCHANGED <<buildVars, dialVars, reqInputs, connVars, copyVars, result, callVars>>

Flush_Skipped(r) ==
    /\ pc[r] = "flush"
    /\ pc' = [pc EXCEPT ![r] = "hijack"]
    /\ UNCHANGED <<buildVars, dialVars, reqInputs, ack, connVars, copyVars, trace,
                   result, callVars>>

\* flusher.Flush()
Flush(r) ==
    /\ pc[r] = "flush"
    /\ ack' = [ack EXCEPT ![r] = "flushed"]
    /\ Logged(r, "flush")
    /\ pc' = [pc EXCEPT ![r] = "hijack"]
    /\ UNCHANGED <<buildVars, dialVars, reqInputs, connVars, copyVars, result, callVars>>

\* lconn, _, err := hijacker.Hijack()
\* if err != nil { return ctx, nil, fmt.Errorf("%#v.Hijack() error: %v", ...) }
\* defer lconn.Close()
Hijack(r) ==
    /\ pc[r] = "hijack"
    /\ \E ok \in BOOLEAN :
          IF ok
          THEN /\ lconn' = [lconn EXCEPT ![r] = "open"]
               /\ Logged(r, "hijack")
               /\ pc' = [pc EXCEPT ![r] = "gocopy"]
               /\ UNCHANGED result
          ELSE /\ Returned(r, "nil", "Hijack() error")
               /\ UNCHANGED <<lconn, trace>>
    /\ UNCHANGED <<buildVars, dialVars, reqInputs, ack, rconn, rpeer, lpeer, copyVars,
                   callVars>>

\* go helpers.IoCopy(rconn, lconn), then the call helpers.IoCopy(lconn, rconn)
\* begins on the calling goroutine.
StartRelay(r) ==
    /\ pc[r] = "gocopy"
    /\ bg' = [bg EXCEPT ![r] = "running"]
    /\ main' = [main EXCEPT ![r] = "running"]
    /\ Logged(r, "relay_start")
    /\ pc' = [pc EXCEPT ![r] = "iocopy"]
    /\ UNCHANGED <<buildVars, dialVars, reqInputs, ack, connVars, moved, result,
                   callVars>>

\* helpers.IoCopy(dst, src): what one turn of the copy loop can do.  A read
\* from a closed handle fails, a read from a source whose peer has closed is
\* end of stream, a write to a closed handle or to a destination whose peer
\* has closed fails; otherwise a chunk the peer sent is moved.  The copy ends
\* without closing either connection.
IoCopyOutcomes(srcHandle, srcPeer, dstHandle, dstPeer) ==
    IF srcHandle # "open" \/ srcPeer = "closed" THEN {"done"}
    ELSE IF dstHandle # "open" \/ dstPeer = "closed" THEN {"done"}
    ELSE {"moved"}

\* helpers.IoCopy(lconn, rconn): destination to client, on the calling
\* goroutine.
MainCopy(r) ==
    /\ main[r] = "running"
    /\ \E o \in IoCopyOutcomes(rconn[r], rpeer[r], lconn[r], lpeer[r]) :
          IF o = "moved"
          THEN /\ moved' = [moved EXCEPT ![r] = TRUE]
               /\ UNCHANGED main
          ELSE /\ main' = [main EXCEPT ![r] = "done"]
               /\ UNCHANGED moved
    /\ UNCHANGED <<buildVars, dialVars, pc, reqInputs, ack, connVars, bg, trace, result,
                   callVars>>

\* go helpers.IoCopy(rconn, lconn): client to destination, on its own
\* goroutine.
BgCopy(r) ==
    /\ bg[r] = "running"
    /\ \E o \in IoCopyOutcomes(lconn[r], lpeer[r], rconn[r], rpeer[r]) :
          IF o = "moved"
          THEN /\ moved' = [moved EXCEPT ![r] = TRUE]
               /\ UNCHANGED bg
          ELSE /\ bg' = [bg EXCEPT ![r] = "done"]
               /\ UNCHANGED moved
    /\ UNCHANGED <<buildVars, dialVars, pc, reqInputs, ack, connVars, main, trace,
                   result, callVars>>

TunnelReturn_Early(r) ==
    /\ pc[r] = "iocopy"
    /\ lconn' = [lconn EXCEPT ![r] = "closed"]
    /\ Returned(r, DummyResponse, "nil")
    /\ UNCHANGED <<buildVars, dialVars, reqInputs, ack, rconn, rpeer, lpeer, copyVars,
                   trace, callVars>>

\* return ctx, filters.DummyResponse, nil, once helpers.IoCopy(lconn, rconn)
\* has returned; the deferred lconn.Close() runs.
TunnelReturn(r) ==
    /\ pc[r] = "iocopy"
    /\ main[r] = "done"
    /\ lconn' = [lconn EXCEPT ![r] = "closed"]
    /\ Returned(r, DummyResponse, "nil")
    /\ UNCHANGED <<buildVars, dialVars, reqInputs, ack, rconn, rpeer, lpeer, copyVars,
                   trace, callVars>>

\* The inbound client closes its end of the connection.  Only the copy loops
\* observe a peer, so a close that comes before the relay is the same as one
\* at its start.
ClientClose(r) ==
    /\ pc[r] = "iocopy"
    /\ lpeer[r] = "open"
    /\ lpeer' = [lpeer EXCEPT ![r] = "closed"]
    /\ UNCHANGED <<buildVars, dialVars, pc, reqInputs, ack, rconn, lconn, rpeer,
                   copyVars, trace, result, callVars>>

\* The destination closes its end of the outbound connection.
DestClose(r) ==
    /\ pc[r] = "iocopy"
    /\ rconn[r] = "open"
    /\ rpeer[r] = "open"
    /\ rpeer' = [rpeer EXCEPT ![r] = "closed"]
    /\ UNCHANGED <<buildVars, dialVars, pc, reqInputs, ack, rconn, lconn, lpeer,
                   copyVars, trace, result, callVars>>

\* helpers.FixRequestURL(req): the request URL is made absolute.
FixRequestURL(r) ==
    /\ pc[r] = "fixurl"
    /\ urlform' = [urlform EXCEPT ![r] = "absolute"]
    /\ Logged(r, "fix_url")
    /\ pc' = [pc EXCEPT ![r] = "forward"]
    /\ UNCHANGED <<buildVars, dialVars, method, rw, ack, connVars, copyVars, result,
                   callVars>>

\* http.Transport: a request goes to the proxy when Proxy is set, and through
\* the Dial function otherwise.
ForwardRoute(t) == IF t.Proxy.set THEN "upstream" ELSE DialRoute(t)

\* http.Transport.RoundTrip needs an absolute URL.
ForwardOutcomes(form) ==
    IF form = "absolute" THEN {"ok"} \cup TransportErrs
    ELSE {"unsupported protocol scheme"}

ForwardError_Wrapped(e) == "RoundTrip error"

\* if err != nil { return ctx, nil, err }
ForwardError(e) == e

\* resp, err := f.transport.RoundTrip(req)
\* if err != nil { return ctx, nil, err } ... return ctx, resp, err
TransportRoundTrip(r) ==
    /\ pc[r] = "forward"
    /\ \E out \in ForwardOutcomes(urlform[r]) :
          /\ fwdCalls' = [fwdCalls EXCEPT ![r] = @ + 1]
          /\ via' = [via EXCEPT ![r] = ForwardRoute(tr)]
          /\ Logged(r, "forward")
          /\ IF out = "ok"
             THEN /\ Returned(r, "response", "nil")
                  /\ UNCHANGED trErr
             ELSE /\ trErr' = [trErr EXCEPT ![r] = out]
                  /\ Returned(r, "nil", ForwardError(out))
          /\ UNCHANGED dialCalls
    /\ UNCHANGED <<buildVars, dialVars, reqInputs, ack, connVars, copyVars>>

\* ----------------------------------------------------------------- d.Dial
\* The resilient dialer behind tr.Dial: resolve, drop the host's own
\* addresses, attempt, and retry after a sleep.  The dial of the first
\* CONNECT request is followed attempt by attempt, from the call of
\* f.transport.Dial to what RoundTrip makes of its result.

\* Retry counts the dialer is followed under: -1 .. MaxRetries.
RetryRange == -1 .. MaxRetries

\* The configurations the dialer is followed under: every retry count,
\* dialling directly or through a proxy-protocol connector.
DialConfigs ==
    [Dialer : {[DefaultDialerConfig EXCEPT !.RetryTimes = n] :
                  n \in RetryRange},
     ProxyEnabled : BOOLEAN,
     ProxyURL : {[schemeText |-> "socks5", rest |-> "//proxy:8080"]},
     Options : {DefaultTransportOptions}]

InitDial ==
    InitBuild(DialConfigs) /\ InitDialer(IfaceResults) /\ InitRequests

\* The pipeline hands the filter its first request.
StartFirst(r) ==
    /\ \A q \in Reqs : pc[q] = "idle"
    /\ Start(r)

RetryDue_OneShort(attemptsMade, retryTimes) == attemptsMade < retryTimes

\* After a failed attempt: another attempt is due while fewer than
\* RetryTimes retries have been made.
RetryDue(attemptsMade, retryTimes) == attemptsMade - 1 < retryTimes

Candidates_Unfiltered(resolved, loopback) == resolved

\* The resolved addresses that are not in LoopbackAddrs.
Candidates(resolved, loopback) == resolved \ loopback

\* rconn, err := f.transport.Dial("tcp", req.Host): the call reaches d.Dial,
\* directly or through the proxy connector.  Whether the connector can
\* succeed at all is the network's choice.
DialBegin(r) ==
    /\ pc[r] = "dial"
    /\ tr.Dial \in {"d.Dial", "proxy.Dial"}
    /\ dl.state = "idle"
    /\ \E af \in BOOLEAN :
          dl' = [dl EXCEPT !.state = "resolve", !.alwaysFails = af]
    /\ dialCalls' = [dialCalls EXCEPT ![r] = @ + 1]
    /\ via' = [via EXCEPT ![r] = DialRoute(tr)]
    /\ pc' = [pc EXCEPT ![r] = "dialing"]
    /\ UNCHANGED <<buildVars, ifaces, reqInputs, ack, connVars, copyVars,
                   trace, result, fwdCalls, trErr>>

\* Steps 1 and 2: the host resolves (from the cache or afresh) to a set of
\* addresses, or not at all; the addresses of LoopbackAddrs are dropped, and
\* with none left the call fails with the loop error, without an attempt.
DialResolve ==
    /\ dl.state = "resolve"
    /\ \/ dl' = [dl EXCEPT !.state = "failed", !.err = "no such host"]
       \/ \E found \in (SUBSET Addrs) \ {{}} :
             LET left == Candidates(found, dialer.LoopbackAddrs)
             IN  IF left = {}
                 THEN dl' = [dl EXCEPT !.state = "failed",
                                       !.resolved = found,
                                       !.err = "loop detected"]
                 ELSE dl' = [dl EXCEPT !.state = "attempt",
                                       !.resolved = found,
                                       !.cands = left]
    /\ UNCHANGED <<buildVars, ifaces, pc, reqInputs, ack, connVars, copyVars,
                   trace, result, callVars>>

\* Steps 3 to 5: one connection attempt against the candidates.  Success
\* ends the call; a failure is followed by a sleep and a retry while one is
\* due, and ends the call with this last error otherwise.
DialAttempt ==
    /\ dl.state = "attempt"
    /\ \/ /\ ~dl.alwaysFails
          /\ dl' = [dl EXCEPT !.state = "connected",
                              !.attempts = @ + 1]
       \/ \E e \in DialErrs :
             dl' = [dl EXCEPT !.attempts = @ + 1,
                              !.errs = Append(@, e),
                              !.state = IF RetryDue(dl.attempts + 1,
                                                    dialer.RetryTimes)
                                        THEN "sleep" ELSE "failed",
                              !.err = IF RetryDue(dl.attempts + 1,
                                                  dialer.RetryTimes)
                                      THEN "nil" ELSE e]
    /\ UNCHANGED <<buildVars, ifaces, pc, reqInputs, ack, connVars, copyVars,
                   trace, result, callVars>>

\* Step 4: the sleep of RetryDelay between two attempts.
DialSleep ==
    /\ dl.state = "sleep"
    /\ dl' = [dl EXCEPT !.state = "attempt", !.sleeps = @ + 1]
    /\ UNCHANGED <<buildVars, ifaces, pc, reqInputs, ack, connVars, copyVars,
                   trace, result, callVars>>

\* f.transport.Dial returns to RoundTrip:
\* if err != nil { return ctx, nil, err }; otherwise rconn is the connection.
DialReturn(r) ==
    /\ pc[r] = "dialing"
    /\ dl.state \in {"connected", "failed"}
    /\ LET out == IF dl.state = "connected" THEN "ok" ELSE dl.err
       IN  /\ Logged(r, IF out = "ok" THEN "dial_ok" ELSE "dial_fail")
           /\ rconn' = [rconn EXCEPT ![r] =
                           IF out = "ok" THEN "open" ELSE "none"]
           /\ IF DialFailed(out)
              THEN Returned(r, "nil", out)
              ELSE /\ pc' = [pc EXCEPT ![r] = "hijacker"]
                   /\ UNCHANGED result
    /\ UNCHANGED <<buildVars, dialVars, reqInputs, ack, lconn, rpeer, lpeer,
                   copyVars, callVars>>

NextDial ==
    \/ NewFilter
    \/ \E r \in Reqs : StartFirst(r)
    \/ \E r \in Reqs : DialBegin(r)
    \/ DialResolve
    \/ DialAttempt
    \/ DialSleep
    \/ \E r \in Reqs : DialReturn(r)
    \/ \E r \in Reqs : CheckHijacker(r)

\* --------------------------------------------------------- specifications
Next ==
    \/ NewFilter
    \/ \E r \in Reqs : Start(r)
    \/ \E r \in Reqs : ConnectDial(r)
    \/ \E r \in Reqs : CheckHijacker(r)
    \/ \E r \in Reqs : CheckFlusher(r)
    \/ \E r \in Reqs : WriteHeader(r)
    \/ \E r \in Reqs : Flush(r)
    \/ \E r \in Reqs : Hijack(r)
    \/ \E r \in Reqs : StartRelay(r)
    \/ \E r \in Reqs : MainCopy(r)
    \/ \E r \in Reqs : BgCopy(r)
    \/ \E r \in Reqs : TunnelReturn(r)
    \/ \E r \in Reqs : ClientClose(r)
    \/ \E r \in Reqs : DestClose(r)
    \/ \E r \in Reqs : FixRequestURL(r)
    \/ \E r \in Reqs : TransportRoundTrip(r)

\* The filter built under a serving configuration, then handling requests.
Spec == Init /\ [][Next]_vars

\* Construction alone, under every configuration of the model.
SpecAll == InitAll /\ [][NewFilter]_vars

\* One call of the dialer, under every retry count and interface set.
SpecDial == InitDial /\ [][NextDial]_vars

\* ----------------------------------------------------------------- claims
IsPrefix(p, q) == Len(p) <= Len(q) /\ SubSeq(q, 1, Len(p)) = p

Occurs(ev, q) == \E i \in 1 .. Len(q) : q[i] = ev

\* C1: a CONNECT request whose dial fails returns a nil response and the
\* dial's error; nothing is acknowledged to the client, the connection is not
\* hijacked and no relay starts.
C1_DialFailureNoAck ==
    \A r \in Reqs :
        (method[r] = "CONNECT" /\ Occurs("dial_fail", trace[r])) =>
            /\ pc[r] = "returned"
            /\ result[r].resp = "nil"
            /\ result[r].err \in DialErrs
            /\ ack[r] = "none"
            /\ ~Occurs("write200", trace[r])
            /\ ~Occurs("flush", trace[r])
            /\ lconn[r] = "none"
            /\ bg[r] = "none" /\ main[r] = "none"
            /\ ~moved[r]

C1_Witness ==
    \E r \in Reqs :
        /\ method[r] = "CONNECT"
        /\ Occurs("dial_fail", trace[r])
        /\ pc[r] = "returned"

\* The calls of a CONNECT session up to the relay, in the order C2 states.
TunnelOrder == <<"dial_ok", "write200", "flush", "hijack", "relay_start">>

\* C2: in a CONNECT session the 200 acknowledgment is written and flushed
\* before the inbound connection is hijacked and before either copy direction
\* runs or moves a byte: the calls come in the order dial success,
\* WriteHeader(200), Flush, Hijack, relay start.
C2_AckBeforeRelay ==
    \A r \in Reqs :
        /\ IsPrefix(trace[r], TunnelOrder) \/ method[r] # "CONNECT"
           \/ Occurs("dial_fail", trace[r])
        /\ lconn[r] # "none" =>
              ack[r] = "flushed" /\ IsPrefix(SubSeq(TunnelOrder, 1, 4), trace[r])
        /\ (bg[r] # "none" \/ main[r] # "none" \/ moved[r]) =>
              ack[r] = "flushed" /\ trace[r] = TunnelOrder

C2_Witness ==
    \E r \in Reqs : moved[r] /\ pc[r] = "iocopy" /\ trace[r] = TunnelOrder

\* A CONNECT session that was hijacked and has nothing left to run.
SessionOver(r) ==
    /\ lconn[r] # "none"
    /\ pc[r] = "returned"
    /\ bg[r] = "done"
    /\ main[r] = "done"

\* C3: once a tunnel is over (RoundTrip has returned and both copy
\* directions have ended), both the inbound and the outbound handle are
\* closed: whichever side closed first, no connection is leaked.
C3_BothHandlesClosed ==
    \A r \in Reqs :
        SessionOver(r) => lconn[r] = "closed" /\ rconn[r] = "closed"

\* The proxy is enabled with an http or https upstream and the filter built.
NativeUpstream ==
    /\ filter = "ready"
    /\ config.ProxyEnabled
    /\ config.ProxyURL.schemeText \in {"http", "HTTP", "https"}

\* C4: with an http or https upstream proxy every request RoundTrip has
\* finished with, CONNECT or not, got its outbound path through the upstream
\* proxy, and none dialled directly.
C4_AllThroughUpstream ==
    NativeUpstream =>
        \A r \in Reqs :
            /\ via[r] # "direct"
            /\ pc[r] \in {"returned", "panicked"} => via[r] = "upstream"

\* C5: RoundTrip neither closes the inbound connection nor returns before
\* both copy directions of the session have ended.
C5_CopiesJoined ==
    \A r \in Reqs :
        (lconn[r] = "closed" \/ (pc[r] = "returned" /\ lconn[r] # "none")) =>
            bg[r] = "done" /\ main[r] = "done"

\* C6: a CONNECT request whose dial succeeded but whose ResponseWriter is no
\* Hijacker fails at once with the capability error: nil response, no 200
\* written, no relay, and the one dial only.
C6_NoHijackerFails ==
    \A r \in Reqs :
        (/\ method[r] = "CONNECT"
         /\ Occurs("dial_ok", trace[r])
         /\ ~rw[r].hijacker
         /\ pc[r] # "hijacker") =>
            /\ pc[r] = "returned"
            /\ result[r] = [resp |-> "nil", err |-> "not a Hijacker"]
            /\ trace[r] = <<"dial_ok">>
            /\ ack[r] = "none"
            /\ lconn[r] = "none"
            /\ bg[r] = "none" /\ main[r] = "none"
            /\ dialCalls[r] = 1

C6_Witness ==
    \E r \in Reqs :
        /\ method[r] = "CONNECT"
        /\ Occurs("dial_ok", trace[r])
        /\ ~rw[r].hijacker
        /\ pc[r] = "returned"

\* C7: no retry above the dial layer.  No request calls the dial or the
\* forward operation twice; a returned non-CONNECT request normalized its URL
\* and then forwarded exactly once, and when that failed it returned the
\* transport's error itself with a nil response; a returned CONNECT request
\* dialled exactly once and never forwarded.
C7_NoRetry ==
    \A r \in Reqs :
        /\ dialCalls[r] <= 1 /\ fwdCalls[r] <= 1
        /\ (pc[r] = "returned" /\ method[r] # "CONNECT") =>
              /\ trace[r] = <<"fix_url", "forward">>
              /\ fwdCalls[r] = 1 /\ dialCalls[r] = 0
              /\ trErr[r] # "none" =>
                    result[r] = [resp |-> "nil", err |-> trErr[r]]
              /\ trErr[r] = "none" => result[r].err = "nil"
        /\ (pc[r] = "returned" /\ method[r] = "CONNECT") =>
              dialCalls[r] = 1 /\ fwdCalls[r] = 0

C7_Witness ==
    \E r \in Reqs :
        /\ method[r] = "GET"
        /\ pc[r] = "returned"
        /\ trErr[r] \in TransportErrs

\* C8: the transport NewFilter returns holds exactly one connector: proxy
\* disabled, the resilient dialer and no proxy function; proxy enabled with
\* scheme http or https, the configured URL as proxy function and no dial
\* function; proxy enabled with another scheme, the proxy-protocol connector
\* and no proxy function.  Never a dial function and a proxy function both.
C8_OneConnector ==
    filter = "ready" =>
        /\ ~(tr.Dial # "nil" /\ tr.Proxy.set)
        /\ tr.Dial # "nil" \/ tr.Proxy.set
        /\ tr.DialTLS = "nil"
        /\ ~config.ProxyEnabled => tr.Dial = "d.Dial" /\ ~tr.Proxy.set
        /\ (config.ProxyEnabled
            /\ config.ProxyURL.schemeText \in {"http", "HTTP", "https"}) =>
              /\ tr.Dial = "nil"
              /\ tr.Proxy.set
              /\ tr.Proxy.url.Scheme \in {"http", "https"}
              /\ tr.Proxy.url.Host = "proxy:8080"
        /\ (config.ProxyEnabled
            /\ config.ProxyURL.schemeText \notin {"http", "HTTP", "https"}) =>
              tr.Dial = "proxy.Dial" /\ ~tr.Proxy.set

C8_Witness ==
    /\ filter = "ready"
    /\ config.ProxyEnabled
    /\ config.ProxyURL.schemeText = "HTTP"
    /\ tr.Proxy.set

\* A proxy URL text url.Parse rejects.
Malformed(u) == u.schemeText = "1http" \/ u.rest = "//[::1"

\* C9: with the proxy enabled and a malformed URL, NewFilter halts the
\* process: no Filter is returned, no RoundTrip call starts and no request
\* gets a result.  With the proxy disabled NewFilter returns the Filter
\* whatever the URL is.
C9_MalformedURLFatal ==
    /\ (config.ProxyEnabled /\ Malformed(config.ProxyURL)) =>
          /\ filter \in {"unbuilt", "fatal"}
          /\ \A r \in Reqs : pc[r] = "idle" /\ result[r] = NoResult
    /\ (~config.ProxyEnabled /\ filter # "unbuilt") =>
          filter = "ready" /\ tr.Dial = "d.Dial"

C9_Witness ==
    /\ config.ProxyEnabled
    /\ Malformed(config.ProxyURL)
    /\ filter = "fatal"

\* A configuration with a negative retry count, timeout or retry delay.
InvalidNumbers(cfg) ==
    \/ cfg.Dialer.RetryTimes < 0
    \/ cfg.Dialer.Timeout < 0
    \/ cfg.Dialer.RetryDelay < 0

\* C10: NewFilter returns no Filter for a configuration with an invalid
\* number.
C10_InvalidNumbersFatal ==
    (filter # "unbuilt" /\ InvalidNumbers(config)) => filter = "fatal"


\* C11: the transport is built once by NewFilter and only read afterwards:
\* no step of any RoundTrip call, in any interleaving of CONNECT and other
\* requests, changes the Filter's transport, a field of it, or the dialer
\* behind it.
C11_TransportReadOnly ==
    [][filter = "ready" => (tr' = tr /\ dialer' = dialer /\ filter' = filter)]_vars

\* Two calls in flight at once, one tunnelling and one forwarding.
C11_Witness ==
    \E r1 \in Reqs, r2 \in Reqs :
        /\ pc[r1] = "iocopy" /\ moved[r1]
        /\ pc[r2] = "forward"
        /\ filter = "ready"
        /\ tr = BaseTransport(config)


\* C12: the retry delay NewFilter installs is the configured retryDelay read
\* as seconds: a configured value of d thousandths of a second makes the
\* dialer sleep d milliseconds between attempts (0.5 gives 500 ms).
C12_RetryDelayInSeconds ==
    filter = "ready" => dialer.RetryDelay = config.Dialer.RetryDelay


\* C13: RoundTrip returns the "already handled" sentinel, with a nil error,
\* only for a CONNECT request whose relay ran and whose copy on the calling
\* goroutine has ended; whenever it returns after a successful hijack the
\* inbound connection is closed; a request whose dial, capability check or
\* hijack failed gets a nil response, never the sentinel.
C13_SentinelAfterRelay ==
    \A r \in Reqs :
        /\ result[r].resp = DummyResponse =>
              /\ method[r] = "CONNECT"
              /\ pc[r] = "returned"
              /\ result[r].err = "nil"
              /\ trace[r] = TunnelOrder
              /\ main[r] = "done"
              /\ lconn[r] = "closed"
        /\ (pc[r] = "returned" /\ lconn[r] # "none") =>
              lconn[r] = "closed" /\ result[r].resp = DummyResponse
        /\ (pc[r] = "returned" /\ method[r] = "CONNECT"
            /\ trace[r] # TunnelOrder) =>
              result[r].resp = "nil" /\ result[r].err # "nil"

C13_Witness ==
    \E r \in Reqs :
        /\ result[r] = [resp |-> DummyResponse, err |-> "nil"]
        /\ lconn[r] = "closed"
        /\ moved[r]


\* C16: every connection-reuse option of the configuration is carried into
\* the transport NewFilter returns: keep-alive disable flag, compression
\* disable flag, handshake timeout in seconds and per-host idle limit.
C16_ReusePolicyCarried ==
    filter = "ready" =>
        /\ tr.DisableKeepAlives = config.Options.DisableKeepAlives
        /\ tr.DisableCompression = config.Options.DisableCompression
        /\ tr.TLSHandshakeTimeout = config.Options.TLSHandshakeTimeout * Second
        /\ tr.MaxIdleConnsPerHost = config.Options.MaxIdleConnsPerHost

\* C17: a CONNECT request that RoundTrip answers with a non-nil error has had
\* no 200 acknowledgment written to its client, whichever error path was
\* taken.
C17_ErrorMeansNoAck ==
    \A r \in Reqs :
        (/\ method[r] = "CONNECT"
         /\ pc[r] = "returned"
         /\ result[r].err # "nil") =>
            ack[r] = "none" /\ ~Occurs("write200", trace[r])

\* C18: once the dial of a CONNECT request has succeeded, the outbound
\* connection is closed by the time RoundTrip returns, on every exit path.
C18_OutboundClosedOnReturn ==
    \A r \in Reqs :
        (pc[r] = "returned" /\ Occurs("dial_ok", trace[r])) =>
            rconn[r] = "closed"


\* C14: with retryTimes = N >= 0 and a connector that always fails, the one
\* dial call of a CONNECT request makes exactly N+1 attempts, with N sleeps,
\* and RoundTrip then returns the error of the last attempt with a nil
\* response; no request dials twice and no call makes more than N+1
\* attempts; with N = 0 there is one attempt and no sleep.
C14_AttemptsAreNPlusOne ==
    LET N == config.Dialer.RetryTimes
    IN  N >= 0 =>
          /\ filter = "ready" => dialer.RetryTimes = N
          /\ dl.attempts <= N + 1
          /\ dl.sleeps <= N
          /\ \A r \in Reqs : dialCalls[r] <= 1
          /\ (dl.alwaysFails /\ dl.state = "failed" /\ dl.cands # {}) =>
                /\ dl.attempts = N + 1
                /\ Len(dl.errs) = N + 1
                /\ dl.err = dl.errs[N + 1]
                /\ dl.sleeps = N
          /\ dl.state = "connected" => dl.attempts = Len(dl.errs) + 1
          /\ \A r \in Reqs :
                (pc[r] = "returned" /\ dl.cands # {}
                 /\ Occurs("dial_fail", trace[r])) =>
                    /\ dialCalls[r] = 1
                    /\ dl.attempts = N + 1
                    /\ result[r] = [resp |-> "nil", err |-> dl.errs[N + 1]]

C14_Witness ==
    \E r \in Reqs :
        /\ config.Dialer.RetryTimes = 2
        /\ dl.alwaysFails
        /\ pc[r] = "returned"
        /\ dl.attempts = 3
        /\ dl.sleeps = 2
        /\ dl.errs[2] # dl.errs[3]
        /\ result[r].err = dl.errs[3]

\* C15: when the host's interface addresses were read at construction and
\* the dial target resolves only to addresses among them, the dial fails at
\* once with the loop error: no connection attempt, no sleep, no retry, and
\* RoundTrip returns that error from its one dial call.
C15_LoopDetected ==
    (/\ ~ifaces.err
     /\ dl.state \notin {"idle", "resolve"}
     /\ dl.resolved # {}
     /\ dl.resolved \subseteq ifaces.ips) =>
        /\ dl.state = "failed"
        /\ dl.err = "loop detected"
        /\ dl.attempts = 0
        /\ dl.sleeps = 0
        /\ dl.errs = << >>
        /\ \A r \in Reqs :
              /\ dialCalls[r] <= 1
              /\ pc[r] = "returned" =>
                    /\ result[r] = [resp |-> "nil", err |-> "loop detected"]
                    /\ ack[r] = "none"
                    /\ rconn[r] = "none"

C15_Witness ==
    \E r \in Reqs :
        /\ pc[r] = "returned"
        /\ result[r].err = "loop detected"
        /\ dl.resolved = {"127.0.0.1", "10.0.0.5"}
        /\ config.Dialer.RetryTimes = 2
        /\ dl.attempts = 0

====
